---------------------------- MODULE Spec2Model ----------------------------
(***************************************************************************)
(* Churn prediction service (apps/main.py): the artifact loader, the       *)
(* feature builder, the inference step and the HTTP handlers around them.  *)
(*                                                                         *)
(* Python values are modelled as follows.                                  *)
(*   - Optional values: None is <<>>, a present value v is <<v>>.          *)
(*   - Numbers that enter a feature vector are exact rationals <<n, d>>    *)
(*     with d > 0, in lowest terms (floating-point rounding is not         *)
(*     modelled).                                                          *)
(*   - A dict is a function from its keys; a list is a sequence.           *)
(*   - A raised exception is a record [type, msg].                         *)
(***************************************************************************)
EXTENDS Integers, Sequences, FiniteSets, TLC

(***************************************************************************)
(* Bounds of the model.                                                    *)
(***************************************************************************)
\* Number of requests that can be in flight at the same time.
NumRequests == 2

Requests == 1..NumRequests

(***************************************************************************)
(* Optional values and rationals.                                          *)
(***************************************************************************)
None == <<>>

Some(v) == <<v>>

IsNone(o) == Len(o) = 0

Get(o) == o[1]

Abs(n) == IF n < 0 THEN -n ELSE n

RECURSIVE GCD(_, _)
GCD(a, b) == IF b = 0 THEN a ELSE GCD(b, a % b)

\* The rational n/d (d > 0) in lowest terms.
Q(n, d) == LET g == GCD(Abs(n), d) IN <<n \div g, d \div g>>

R(n) == <<n, 1>>

QSub(a, b) == Q(a[1] * b[2] - b[1] * a[2], a[2] * b[2])

\* a / b for b > 0.
QDiv(a, b) == Q(a[1] * b[2], a[2] * b[1])

QLess(a, b) == a[1] * b[2] < b[1] * a[2]

\* Variant of QMax: the smaller of the two.
QMin(a, b) == IF QLess(a, b) THEN a ELSE b

QMax(a, b) == IF QLess(a, b) THEN b ELSE a

RECURSIVE IndexOf(_, _)
\* Position of v in the sequence s (1-based), 0 when v does not occur.
IndexOf(s, v) ==
    IF Len(s) = 0 THEN 0
    ELSE IF s[Len(s)] = v /\ IndexOf(SubSeq(s, 1, Len(s) - 1), v) = 0
         THEN Len(s)
         ELSE IndexOf(SubSeq(s, 1, Len(s) - 1), v)

(***************************************************************************)
(* Artifacts that can be on disk.  A classifier is opaque to the service:  *)
(* it exposes predict and predict_proba on a single-row matrix and rejects *)
(* a row whose width is not the width it was fitted on.  The label is the  *)
(* class with the larger probability; when the two classes tie, it is the  *)
(* first class (0).                                                        *)
(***************************************************************************)
Classifier(n) ==
    [type |-> "RandomForestClassifier", n_features |-> n,
     threshold |-> R(12),
     below |-> [label |-> 1, proba |-> <<Q(3, 10), Q(7, 10)>>],
     tie   |-> [label |-> 0, proba |-> <<Q(1, 2), Q(1, 2)>>],
     above |-> [label |-> 0, proba |-> <<Q(4, 5), Q(1, 5)>>]]

\* A fitted StandardScaler over n columns: mean_ and scale_.
Scaler(n) == [mean |-> [i \in 1..n |-> R(i)], scale |-> [i \in 1..n |-> R(2)]]

\* Variant of TrainedFeatureColumns: the three categorical codes come first.
TrainedFeatureColumnsCodesFirst ==
    <<"contract_encoded", "payment_encoded", "internet_encoded",
      "tenure", "monthly_charges", "total_charges", "customer_service_calls",
      "is_month_to_month", "is_electronic_check", "has_internet",
      "tenure_monthly_ratio", "total_monthly_ratio">>

\* scripts/train_model.py main(): the column list stored in the bundle.
TrainedFeatureColumns ==
    <<"tenure", "monthly_charges", "total_charges", "customer_service_calls",
      "is_month_to_month", "is_electronic_check", "has_internet",
      "tenure_monthly_ratio", "total_monthly_ratio",
      "contract_encoded", "payment_encoded", "internet_encoded">>

\* scripts/train_model.py engineer_features(): LabelEncoder.fit sorts the
\* values seen in training; classes_ is the sorted list.
TrainedLabelEncoders ==
    [contract |-> <<"Month-to-month", "One year", "Two year">>,
     payment  |-> <<"Bank transfer", "Credit card", "Electronic check", "Mailed check">>,
     internet |-> <<"DSL", "Fiber optic", "No">>]

Bundle(cols) ==
    [model |-> Classifier(Len(cols)), scaler |-> Scaler(Len(cols)),
     feature_columns |-> cols, label_encoders |-> TrainedLabelEncoders]

\* The bundle b without the slot s.
Without(b, s) == [k \in (DOMAIN b) \ {s} |-> b[k]]

FullFileIds ==
    {"absent", "unreadable", "corrupt",
     "trained", "reordered", "empty_columns", "unknown_column", "narrow_scaler",
     "narrow_model",
     "no_model", "no_scaler", "no_feature_columns", "no_label_encoders"}

SimpleFileIds == {"absent", "corrupt", "model"}

\* Whether the file can be opened and unpickled.
Readable(id) == id \notin {"absent", "unreadable", "corrupt"}

\* The object pickle.load returns for the full-layout file.
FullBundle(id) ==
    CASE id = "trained"            -> Bundle(TrainedFeatureColumns)
      [] id = "reordered"          -> Bundle(<<"internet_encoded", "tenure", "total_monthly_ratio">>)
      [] id = "empty_columns"      -> [Bundle(TrainedFeatureColumns) EXCEPT !.feature_columns = <<>>]
      [] id = "unknown_column"     -> Bundle(<<"tenure", "age">>)
      [] id = "narrow_scaler"      -> [Bundle(TrainedFeatureColumns) EXCEPT !.scaler = Scaler(3)]
      [] id = "narrow_model"       -> [Bundle(TrainedFeatureColumns) EXCEPT !.model = Classifier(3)]
      [] id = "no_model"           -> Without(Bundle(TrainedFeatureColumns), "model")
      [] id = "no_scaler"          -> Without(Bundle(TrainedFeatureColumns), "scaler")
      [] id = "no_feature_columns" -> Without(Bundle(TrainedFeatureColumns), "feature_columns")
      [] id = "no_label_encoders"  -> Without(Bundle(TrainedFeatureColumns), "label_encoders")

\* The object pickle.load returns for the simple-layout file.
SimpleModel(id) == Classifier(Len(TrainedFeatureColumns))

\* What the two artifact locations can hold.  A full-layout bundle that
\* carries all four slots is deployed as save_model writes it, with the
\* simple-layout model next to it; in every other case the simple location
\* holds any of its contents.
DiskStates ==
    {d \in [full : FullFileIds, simple : SimpleFileIds] :
        d.full \in {"trained", "reordered", "empty_columns", "unknown_column",
                    "narrow_scaler", "narrow_model"} => d.simple = "model"}

(***************************************************************************)
(* Requests.  A raw request body carries the seven fields the feature      *)
(* builder reads; monthly_charges and total_charges are whole amounts.     *)
(***************************************************************************)
Customer(t, m, tc, ct, pm, is, calls) ==
    [tenure |-> t, monthly_charges |-> m, total_charges |-> tc,
     contract_type |-> ct, payment_method |-> pm, internet_service |-> is,
     customer_service_calls |-> calls]

RawCustomers ==
    {Customer(12, 50, 600, "Month-to-month", "Electronic check", "DSL", 2),
     Customer(0, 0, 0, "Two year", "Credit card", "No", 0),
     Customer(24, 80, 1920, "One year", "Mailed check", "Fiber optic", 1),
     Customer(6, 20, 100, "Weekly", "Bank transfer", "Satellite", -1),
     Customer(-1, 50, 600, "Month-to-month", "Electronic check", "DSL", 2),
     Customer(12, -50, 600, "Month-to-month", "Electronic check", "DSL", 2),
     Customer(12, 50, -600, "Month-to-month", "Electronic check", "DSL", 2)}

\* Variant of Valid: only the tenure validator is present.
ValidTenureOnly(c) == c.tenure >= 0

\* CustomerData validators: the three fields that are checked.
Valid(c) == c.tenure >= 0 /\ c.monthly_charges >= 0 /\ c.total_charges >= 0

Exception(type, msg) == [type |-> type, msg |-> msg]

\* HTTPException(status_code=500, detail=...); a detail is a sequence of the
\* message's parts.
HTTPException(detail) == [type |-> "HTTPException", status_code |-> 500, detail |-> detail]

\* str(e), as a sequence of parts: an HTTPException prints as
\* "<status_code>: <detail>", any other exception as its message.
Str(e) == IF e.type = "HTTPException" THEN <<"500">> \o e.detail ELSE <<e.msg>>

\* Exception classes that derive from Exception (all that the loader, the
\* feature builder and the classifier raise here).
ExceptionClasses ==
    {"FileNotFoundError", "PermissionError", "UnpicklingError", "KeyError",
     "ValueError", "ZeroDivisionError", "HTTPException"}

(***************************************************************************)
(* State.                                                                  *)
(***************************************************************************)
VARIABLES
    disk,             \* [full, simple]: what is at the two artifact locations
    model,            \* global model
    scaler,           \* global scaler
    feature_columns,  \* global feature_columns
    label_encoders,   \* global label_encoders
    phase,            \* "boot", "startup", "serving" or "crashed"
    lpc,              \* load_model: position in the function
    lslot,            \* load_model: next bundle slot to read (1..4)
    model_data,       \* load_model: the unpickled bundle
    exc,              \* load_model: the exception being handled
    loadResult,       \* value returned by load_model
    loadCalls,        \* number of invocations of load_model
    opened,           \* artifact files opened so far, in order
    req,              \* the predict requests in flight
    info              \* the last answer of a GET endpoint

globals == <<model, scaler, feature_columns, label_encoders>>

loader == <<lpc, lslot, model_data, exc, loadResult, loadCalls, opened>>

vars == <<disk, model, scaler, feature_columns, label_encoders, phase, lpc,
          lslot, model_data, exc, loadResult, loadCalls, opened, req, info>>

IdleRequest ==
    [pc |-> "idle", customer |-> None, assembled |-> None, features |-> None,
     calls |-> {}, resp |-> None]

Init ==
    /\ disk \in DiskStates
    /\ model = None
    /\ scaler = None
    /\ feature_columns = None
    /\ label_encoders = None
    /\ phase = "boot"
    /\ lpc = "idle"
    /\ lslot = 1
    /\ model_data = None
    /\ exc = None
    /\ loadResult = None
    /\ loadCalls = 0
    /\ opened = <<>>
    /\ req = [r \in Requests |-> IdleRequest]
    /\ info = None

(***************************************************************************)
(* load_model and the startup event.                                       *)
(***************************************************************************)
\* Order in which load_model reads the bundle's slots.
SlotOrder == <<"model", "scaler", "feature_columns", "label_encoders">>

\* Variant of FullLayoutExists: the full layout counts as present only when
\* it can be read, so a broken full layout falls through to the simple one.
FullLayoutReadable == Readable(disk.full)

\* Variant of FullLayoutExists: the full layout counts as present only when
\* it unpickles to a bundle with all four slots.
FullLayoutComplete ==
    /\ Readable(disk.full)
    /\ \A i \in 1..Len(SlotOrder) : SlotOrder[i] \in DOMAIN FullBundle(disk.full)

\* os.path.exists(model_path) for the full layout.
FullLayoutExists == disk.full # "absent"

\* Variant of Caught: a handler that names only the file errors.
CaughtFileErrorsOnly(e) == e.type \in {"FileNotFoundError", "PermissionError"}

\* `except Exception`: whether the handler catches e.
Caught(e) == e.type \in ExceptionClasses

\* Variant of Accepting: requests are taken while startup is still running.
AcceptingDuringStartup == phase \in {"startup", "serving"}

\* The server runs the startup handlers to completion before it accepts
\* any request.
Accepting == phase = "serving"

StartupEvent ==
    /\ phase = "boot"
    /\ phase' = "startup"
    /\ lpc' = "exists"
    /\ loadCalls' = loadCalls + 1
    /\ UNCHANGED <<disk, globals, lslot, model_data, exc, loadResult, opened, req, info>>

LoadExists ==
    /\ lpc = "exists"
    /\ lpc' = IF FullLayoutExists THEN "open_full" ELSE "open_simple"
    /\ UNCHANGED <<disk, globals, phase, lslot, model_data, exc, loadResult,
                   loadCalls, opened, req, info>>

LoadOpenFull ==
    /\ lpc = "open_full"
    /\ opened' = Append(opened, "full")
    /\ IF Readable(disk.full)
       THEN /\ model_data' = Some(FullBundle(disk.full))
            /\ lpc' = "slot"
            /\ lslot' = 1
            /\ exc' = exc
       ELSE /\ exc' = Some(Exception(IF disk.full = "corrupt" THEN "UnpicklingError"
                                     ELSE IF disk.full = "unreadable" THEN "PermissionError"
                                     ELSE "FileNotFoundError", "full"))
            /\ lpc' = "except"
            /\ UNCHANGED <<model_data, lslot>>
    /\ UNCHANGED <<disk, globals, phase, loadResult, loadCalls, req, info>>

LoadAssignSlot ==
    /\ lpc = "slot"
    /\ LET name == SlotOrder[lslot]
           data == Get(model_data)
       IN IF name \in DOMAIN data
          THEN /\ model' = IF name = "model" THEN Some(data[name]) ELSE model
               /\ scaler' = IF name = "scaler" THEN Some(data[name]) ELSE scaler
               /\ feature_columns' = IF name = "feature_columns" THEN Some(data[name])
                                     ELSE feature_columns
               /\ label_encoders' = IF name = "label_encoders" THEN Some(data[name])
                                    ELSE label_encoders
               /\ IF lslot < Len(SlotOrder)
                  THEN lslot' = lslot + 1 /\ lpc' = lpc
                  ELSE lslot' = lslot /\ lpc' = "ok"
               /\ exc' = exc
          ELSE /\ exc' = Some(Exception("KeyError", name))
               /\ lpc' = "except"
               /\ UNCHANGED <<globals, lslot>>
    /\ UNCHANGED <<disk, phase, model_data, loadResult, loadCalls, opened, req, info>>

LoadOpenSimple ==
    /\ lpc = "open_simple"
    /\ opened' = Append(opened, "simple")
    /\ IF Readable(disk.simple)
       THEN /\ model' = Some(SimpleModel(disk.simple))
            /\ lpc' = "ok"
            /\ exc' = exc
       ELSE /\ exc' = Some(Exception(IF disk.simple = "corrupt" THEN "UnpicklingError"
                                     ELSE "FileNotFoundError", "simple"))
            /\ lpc' = "except"
            /\ model' = model
    /\ UNCHANGED <<disk, scaler, feature_columns, label_encoders, phase, lslot,
                   model_data, loadResult, loadCalls, req, info>>

LoadReturnTrue ==
    /\ lpc = "ok"
    /\ loadResult' = Some(TRUE)
    /\ lpc' = "returned"
    /\ UNCHANGED <<disk, globals, phase, lslot, model_data, exc, loadCalls, opened, req, info>>

\* The except clause: a caught exception makes load_model return False; one
\* that is not caught leaves load_model and the startup handler, and the
\* server does not start.
LoadExcept ==
    /\ lpc = "except"
    /\ IF Caught(Get(exc))
       THEN loadResult' = Some(FALSE) /\ lpc' = "returned" /\ phase' = phase
       ELSE loadResult' = loadResult /\ lpc' = "raised" /\ phase' = "crashed"
    /\ UNCHANGED <<disk, globals, lslot, model_data, exc, loadCalls, opened, req, info>>

StartupDone ==
    /\ phase = "startup"
    /\ lpc = "returned"
    /\ phase' = "serving"
    /\ UNCHANGED <<disk, globals, loader, req, info>>

(***************************************************************************)
(* prepare_features.                                                       *)
(***************************************************************************)
\* Truth value of a global that holds None, a list or a dict.
Truthy(o) == ~IsNone(o) /\ DOMAIN Get(o) # {}

\* Truth value of a global that holds None or an estimator object.
Present(o) == ~IsNone(o)

\* Variant of RatioGuard: a zero monthly charge is let through to the division.
RatioGuardNonNegative(monthly_charges) == monthly_charges >= 0

\* `if customer.monthly_charges > 0`: whether the two ratios are computed by
\* division (otherwise they are 0).
RatioGuard(monthly_charges) == monthly_charges > 0

\* Python's `/` raises ZeroDivisionError on a zero divisor: whether building
\* the feature dictionary raises it.
DivisionRaises(customer) ==
    RatioGuard(customer.monthly_charges) /\ customer.monthly_charges = 0

\* Variant of BaseFeatures: has_internet is 1 only for the services the
\* fallback table knows.
BaseFeaturesKnownInternet(customer) ==
    [tenure                 |-> R(customer.tenure),
     monthly_charges        |-> R(customer.monthly_charges),
     total_charges          |-> R(customer.total_charges),
     customer_service_calls |-> R(customer.customer_service_calls),
     is_month_to_month      |-> IF customer.contract_type = "Month-to-month" THEN R(1) ELSE R(0),
     is_electronic_check    |-> IF customer.payment_method = "Electronic check" THEN R(1) ELSE R(0),
     has_internet           |-> IF customer.internet_service \in {"DSL", "Fiber optic"}
                                THEN R(1) ELSE R(0),
     tenure_monthly_ratio   |-> IF RatioGuard(customer.monthly_charges)
                                THEN Q(customer.tenure, customer.monthly_charges) ELSE R(0),
     total_monthly_ratio    |-> IF RatioGuard(customer.monthly_charges)
                                THEN Q(customer.total_charges, customer.monthly_charges) ELSE R(0)]

\* The feature dictionary before the categorical codes are added.
BaseFeatures(customer) ==
    [tenure                 |-> R(customer.tenure),
     monthly_charges        |-> R(customer.monthly_charges),
     total_charges          |-> R(customer.total_charges),
     customer_service_calls |-> R(customer.customer_service_calls),
     is_month_to_month      |-> IF customer.contract_type = "Month-to-month" THEN R(1) ELSE R(0),
     is_electronic_check    |-> IF customer.payment_method = "Electronic check" THEN R(1) ELSE R(0),
     has_internet           |-> IF customer.internet_service # "No" THEN R(1) ELSE R(0),
     tenure_monthly_ratio   |-> IF RatioGuard(customer.monthly_charges)
                                THEN Q(customer.tenure, customer.monthly_charges) ELSE R(0),
     total_monthly_ratio    |-> IF RatioGuard(customer.monthly_charges)
                                THEN Q(customer.total_charges, customer.monthly_charges) ELSE R(0)]

contract_mapping == ("Month-to-month" :> 0) @@ ("One year" :> 1) @@ ("Two year" :> 2)

payment_mapping ==
    ("Electronic check" :> 0) @@ ("Mailed check" :> 1) @@ ("Bank transfer" :> 2)
        @@ ("Credit card" :> 3)

internet_mapping == ("No" :> 0) @@ ("DSL" :> 1) @@ ("Fiber optic" :> 2)

\* Variant of MappingGet: an unknown value gets the next free code.
MappingGetNextCode(mapping, value) ==
    IF value \in DOMAIN mapping THEN mapping[value] ELSE Cardinality(DOMAIN mapping)

\* mapping.get(value, 0)
MappingGet(mapping, value) == IF value \in DOMAIN mapping THEN mapping[value] ELSE 0

EncoderKeys == <<"contract", "payment", "internet">>

CategoricalValues(customer) ==
    <<customer.contract_type, customer.payment_method, customer.internet_service>>

\* Variant of TransformFails: an unseen value is not rejected.
TransformFailsOnMissingKey(encoders, key, value) == key \notin DOMAIN encoders

\* Whether label_encoders[key].transform([value]) raises: the key is not in
\* the dict, or the value is not one of the encoder's classes.
TransformFails(encoders, key, value) ==
    key \notin DOMAIN encoders \/ IndexOf(encoders[key], value) = 0

\* LabelEncoder.transform: the position of the value in the sorted classes.
Transform(encoders, key, value) == IndexOf(encoders[key], value) - 1

\* The three categorical codes of the fallback tables.
FallbackCodes(customer) ==
    <<MappingGet(contract_mapping, customer.contract_type),
      MappingGet(payment_mapping, customer.payment_method),
      MappingGet(internet_mapping, customer.internet_service)>>

\* The three categorical codes, or the exception raised while encoding.
Encode(customer) ==
    IF Truthy(label_encoders)
    THEN LET encoders == Get(label_encoders)
             values == CategoricalValues(customer)
             failing == {i \in 1..3 : TransformFails(encoders, EncoderKeys[i], values[i])}
         IN IF failing # {}
            THEN LET i == CHOOSE i \in failing : \A j \in failing : i <= j
                 IN [ok |-> FALSE, codes |-> <<>>,
                     exc |-> IF EncoderKeys[i] \notin DOMAIN encoders
                             THEN Exception("KeyError", EncoderKeys[i])
                             ELSE Exception("ValueError", "unseen label")]
            ELSE [ok |-> TRUE,
                  codes |-> [i \in 1..3 |-> Transform(encoders, EncoderKeys[i], values[i])],
                  exc |-> Exception("", "")]
    ELSE [ok |-> TRUE, codes |-> FallbackCodes(customer), exc |-> Exception("", "")]

\* The feature dictionary with the categorical codes.
Features(customer, codes) ==
    BaseFeatures(customer) @@
    [contract_encoded |-> R(codes[1]), payment_encoded |-> R(codes[2]),
     internet_encoded |-> R(codes[3])]

\* Variant of FallbackOrder: customer_service_calls is left out.
FallbackOrderWithoutCalls ==
    <<"tenure", "monthly_charges", "total_charges", "is_month_to_month",
      "is_electronic_check", "has_internet",
      "tenure_monthly_ratio", "total_monthly_ratio",
      "contract_encoded", "payment_encoded", "internet_encoded">>

\* The built-in column order used when feature_columns is not available.
FallbackOrder ==
    <<"tenure", "monthly_charges", "total_charges",
      "customer_service_calls", "is_month_to_month",
      "is_electronic_check", "has_internet",
      "tenure_monthly_ratio", "total_monthly_ratio",
      "contract_encoded", "payment_encoded", "internet_encoded">>

\* The columns prepare_features selects, in order.
SelectedColumns == IF Truthy(feature_columns) THEN Get(feature_columns) ELSE FallbackOrder

\* StandardScaler.transform on one row: raises unless the row has the width
\* the scaler was fitted on.
ScalerFails(s, row) == Len(row) # Len(s.mean)

ScalerTransform(s, row) == [i \in 1..Len(row) |-> QDiv(QSub(row[i], s.mean[i]), s.scale[i])]

Failure(e) == [ok |-> FALSE, assembled |-> None, value |-> None, exc |-> e]

\* prepare_features(customer): the row handed to the model (value), the row
\* before scaling (assembled), or the exception the try block caught.
prepare_features(customer) ==
    LET enc == Encode(customer)
    IN IF DivisionRaises(customer)
       THEN Failure(Exception("ZeroDivisionError", "division by zero"))
       ELSE IF ~enc.ok THEN Failure(enc.exc)
       ELSE LET features == Features(customer, enc.codes)
                cols == SelectedColumns
                missing == {i \in 1..Len(cols) : cols[i] \notin DOMAIN features}
            IN IF missing # {}
               THEN Failure(Exception("KeyError",
                                      cols[CHOOSE i \in missing : \A j \in missing : i <= j]))
               ELSE LET feature_array == [i \in 1..Len(cols) |-> features[cols[i]]]
                    IN IF Present(scaler)
                       THEN IF ScalerFails(Get(scaler), feature_array)
                            THEN Failure(Exception("ValueError", "scaler width"))
                            ELSE [ok |-> TRUE, assembled |-> Some(feature_array),
                                  value |-> Some(ScalerTransform(Get(scaler), feature_array)),
                                  exc |-> Exception("", "")]
                       ELSE [ok |-> TRUE, assembled |-> Some(feature_array),
                             value |-> Some(feature_array), exc |-> Exception("", "")]

(***************************************************************************)
(* The classifier's two operations.                                        *)
(***************************************************************************)
\* Variant of ModelFails: a row of any width is scored.
ModelAcceptsAnyWidth(m, row) == FALSE

\* Both operations raise on a row of the wrong width.
ModelFails(m, row) == Len(row) # m.n_features

ModelOutput(m, row) ==
    IF QLess(row[1], m.threshold) THEN m.below
    ELSE IF row[1] = m.threshold THEN m.tie
    ELSE m.above

\* model.predict(features)[0]
Predict(m, row) == ModelOutput(m, row).label

\* model.predict_proba(features)[0]
PredictProba(m, row) == ModelOutput(m, row).proba

(***************************************************************************)
(* The request handlers.  A predict request is taken in three steps        *)
(* (validation, model check and feature preparation, inference), and the   *)
(* steps of different requests interleave freely.                          *)
(***************************************************************************)
Response(status, detail, body) == [status |-> status, detail |-> detail, body |-> body]

\* Variant of PredictionResponse: the probability is read at index 0.
PredictionResponseFirstClass(prediction, probability) ==
    [churn_prediction |-> prediction # 0,
     churn_probability |-> probability[1],
     confidence |-> QMax(probability[1], probability[2]),
     model_version |-> "1.0.0"]

\* Variant of PredictionResponse: another version string.
PredictionResponseOtherVersion(prediction, probability) ==
    [churn_prediction |-> prediction # 0,
     churn_probability |-> probability[2],
     confidence |-> QMax(probability[1], probability[2]),
     model_version |-> "1.0"]

\* The body of a PredictionResponse.
PredictionResponse(prediction, probability) ==
    [churn_prediction |-> prediction # 0,
     churn_probability |-> probability[2],
     confidence |-> QMax(probability[1], probability[2]),
     model_version |-> "1.0.0"]

\* Variant of FeaturePreparationError: the exception leaves prepare_features
\* as it was raised.
Reraised(e) == e

\* prepare_features' except clause: any exception e raised while building
\* the row is replaced by a 500 "Feature preparation error: <str(e)>".
FeaturePreparationError(e) == HTTPException(<<"Feature preparation error">> \o Str(e))

\* predict_churn's except clause: any exception e raised in the try block
\* becomes a 500 whose detail is str(e).
ErrorResponse(e) == Response(500, Str(e), None)

\* Variant of RequestFeatures: the prepared row is kept in one module-level
\* buffer that the handlers share.
SharedFeatures(r) ==
    Get(req[CHOOSE s \in Requests : req[s].pc = "predict" /\
                \A t \in Requests : req[t].pc = "predict" => s <= t].features)

\* The local variable `features` of request r's handler.
RequestFeatures(r) == Get(req[r].features)

\* Variant of EncodersAfterPrepare: an unseen contract type is added to the
\* shared encoder's classes.
EncodersExtendedOnUnseen(customer) ==
    IF Truthy(label_encoders) /\ "contract" \in DOMAIN Get(label_encoders)
       /\ IndexOf(Get(label_encoders).contract, customer.contract_type) = 0
    THEN Some([Get(label_encoders) EXCEPT !.contract = Append(@, customer.contract_type)])
    ELSE label_encoders

\* label_encoders after prepare_features ran: transform only reads the
\* fitted classes, and prepare_features assigns no global.
EncodersAfterPrepare(customer) == label_encoders

\* The request body is parsed into CustomerData; a validator that raises
\* makes the framework answer 422 without calling predict_churn.
PredictReceive(r) ==
    /\ Accepting
    /\ req[r].pc = "idle"
    /\ \E c \in RawCustomers :
          req' = [req EXCEPT ![r] =
                    IF Valid(c)
                    THEN [IdleRequest EXCEPT !.pc = "handler", !.customer = Some(c)]
                    ELSE [IdleRequest EXCEPT !.pc = "done", !.customer = Some(c),
                             !.resp = Some(Response(422, <<"validation error">>, None))]]
    /\ UNCHANGED <<disk, globals, phase, loader, info>>

\* predict_churn up to and including the call of prepare_features.
PredictPrepare(r) ==
    /\ req[r].pc = "handler"
    /\ LET customer == Get(req[r].customer)
       IN /\ IF IsNone(model)
             THEN req' = [req EXCEPT ![r].pc = "done",
                             ![r].resp = Some(ErrorResponse(HTTPException(<<"Model not loaded">>)))]
             ELSE LET res == prepare_features(customer)
                  IN IF res.ok
                     THEN req' = [req EXCEPT ![r].pc = "predict",
                                     ![r].assembled = res.assembled,
                                     ![r].features = res.value,
                                     ![r].calls = @ \cup {"prepare_features"}]
                     ELSE req' = [req EXCEPT ![r].pc = "done",
                                     ![r].calls = @ \cup {"prepare_features"},
                                     ![r].resp =
                                         Some(ErrorResponse(FeaturePreparationError(res.exc)))]
          /\ label_encoders' = IF IsNone(model) THEN label_encoders
                               ELSE EncodersAfterPrepare(customer)
    /\ UNCHANGED <<disk, model, scaler, feature_columns, phase, loader, info>>

\* predict_churn from the call of model.predict to the response.
PredictInfer(r) ==
    /\ req[r].pc = "predict"
    /\ LET m == Get(model)
           row == RequestFeatures(r)
       IN IF ModelFails(m, row)
          THEN req' = [req EXCEPT ![r].pc = "done",
                          ![r].calls = @ \cup {"predict"},
                          ![r].resp = Some(ErrorResponse(Exception("ValueError", "model width")))]
          ELSE req' = [req EXCEPT ![r].pc = "done",
                          ![r].calls = @ \cup {"predict", "predict_proba"},
                          ![r].resp = Some(Response(200, <<>>,
                              Some(PredictionResponse(Predict(m, row), PredictProba(m, row)))))]
    /\ UNCHANGED <<disk, globals, phase, loader, info>>

\* The response is sent and the request's state is discarded.
PredictRespond(r) ==
    /\ req[r].pc = "done"
    /\ req' = [req EXCEPT ![r] = IdleRequest]
    /\ UNCHANGED <<disk, globals, phase, loader, info>>

\* Variant of HealthBody: model_loaded repeats what load_model returned.
HealthBodyFromLoadResult ==
    [endpoint |-> "health", status |-> 200, model_loaded |-> loadResult = Some(TRUE),
     model_type |-> IF Present(model) THEN Some(Get(model).type) ELSE None]

HealthBody ==
    [endpoint |-> "health", status |-> 200, model_loaded |-> ~IsNone(model),
     model_type |-> IF Present(model) THEN Some(Get(model).type) ELSE None]

ModelInfoBody ==
    IF IsNone(model)
    THEN [endpoint |-> "model-info", status |-> 500, detail |-> <<"Model not loaded">>]
    ELSE [endpoint |-> "model-info", status |-> 200, model_type |-> Get(model).type,
          model_version |-> "1.0.0",
          features_used |-> IF Truthy(feature_columns) THEN Get(feature_columns)
                            ELSE <<"Default features">>,
          has_preprocessing |-> ~IsNone(scaler)]

RootBody == [endpoint |-> "root", status |-> 200, version |-> "1.0.0"]

HealthCheck ==
    /\ Accepting
    /\ info' = Some(HealthBody)
    /\ UNCHANGED <<disk, globals, phase, loader, req>>

ModelInfo ==
    /\ Accepting
    /\ info' = Some(ModelInfoBody)
    /\ UNCHANGED <<disk, globals, phase, loader, req>>

Root ==
    /\ Accepting
    /\ info' = Some(RootBody)
    /\ UNCHANGED <<disk, globals, phase, loader, req>>

Next ==
    \/ StartupEvent
    \/ LoadExists
    \/ LoadOpenFull
    \/ LoadAssignSlot
    \/ LoadOpenSimple
    \/ LoadReturnTrue
    \/ LoadExcept
    \/ StartupDone
    \/ \E r \in Requests : PredictReceive(r)
    \/ \E r \in Requests : PredictPrepare(r)
    \/ \E r \in Requests : PredictInfer(r)
    \/ \E r \in Requests : PredictRespond(r)
    \/ HealthCheck
    \/ ModelInfo
    \/ Root

Spec == Init /\ [][Next]_vars

\* The steps of the startup handler: straight-line code that the server runs
\* to its end before doing anything else.
Startup ==
    \/ StartupEvent
    \/ LoadExists
    \/ LoadOpenFull
    \/ LoadAssignSlot
    \/ LoadOpenSimple
    \/ LoadReturnTrue
    \/ LoadExcept
    \/ StartupDone

\* Spec with the startup handler running to completion.
FairSpec == Spec /\ WF_vars(Startup)

(***************************************************************************)
(* Properties.                                                             *)
(***************************************************************************)
\* PreprocessingState: Full when the three preprocessing globals are set,
\* Absent when none is.
Full == ~IsNone(scaler) /\ ~IsNone(feature_columns) /\ ~IsNone(label_encoders)

Absent == IsNone(scaler) /\ IsNone(feature_columns) /\ IsNone(label_encoders)

\* The 'model unavailable' rejection of a predict request.
ModelUnavailable(resp) ==
    /\ resp.status = 500
    /\ Len(resp.detail) > 0
    /\ resp.detail[Len(resp.detail)] = "Model not loaded"
    /\ IsNone(resp.body)

\* The last GET answer came from the health endpoint.
HealthSeen == ~IsNone(info) /\ Get(info).endpoint = "health"

\* Requests that reached predict_churn and have an answer.
Answered == {r \in Requests : req[r].pc = "done" /\ Valid(Get(req[r].customer))}

\* C1: after a startup whose load failed (no artifact could be loaded),
\* health reports model_loaded = false, every predict request is rejected as
\* 'model unavailable' with neither the feature builder nor the model called,
\* and the model stays unloaded.
C1_DegradedAfterFailedLoad ==
    (phase = "serving" /\ loadResult = Some(FALSE)) =>
        /\ HealthSeen => ~Get(info).model_loaded
        /\ \A r \in Requests : req[r].pc # "predict"
        /\ \A r \in Answered :
              ModelUnavailable(Get(req[r].resp)) /\ req[r].calls = {}

\* C2: whenever a predict request has built (or tried to build) a vector,
\* the preprocessing state is Full or Absent, never partly populated.
C2_FullOrAbsent ==
    \A r \in Requests : "prepare_features" \in req[r].calls => Full \/ Absent

\* C3: once the service is up, the model_loaded flag that health reports is
\* true exactly when load_model returned True.
C3_HealthFollowsLoadResult ==
    (phase = "serving" /\ HealthSeen) =>
        (Get(info).model_loaded <=> loadResult = Some(TRUE))

\* No exception escapes load_model; it returns a boolean, False whenever an
\* exception was raised; startup can then finish and health can be called.
LoadFailsSoft ==
    /\ phase # "crashed"
    /\ lpc # "raised"
    /\ lpc = "returned" => loadResult \in {Some(TRUE), Some(FALSE)}
    /\ (lpc = "returned" /\ ~IsNone(exc)) => loadResult = Some(FALSE)
    /\ (phase = "startup" /\ lpc = "returned") => ENABLED StartupDone
    /\ phase = "serving" => ENABLED HealthCheck

\* C4: load_model never lets an exception escape: whatever the two files
\* hold it terminates and returns a boolean, False whenever an exception was
\* raised, and startup completes so that the service answers health requests.
C4_LoadFailsSoft == []LoadFailsSoft /\ <>(phase = "serving" /\ ~IsNone(loadResult))

\* C4 witness: a bundle without one of its slots made load_model return
\* False, and the service went on to answer a health request.
C4_Witness ==
    /\ phase = "serving"
    /\ loadResult = Some(FALSE)
    /\ ~IsNone(exc) /\ Get(exc).type = "KeyError"
    /\ HealthSeen

\* C5: the full layout is tried first and the simple layout is read only
\* when the full-layout file is absent; a successful full load publishes the
\* bundle's four slots, a successful simple load publishes the model alone.
C5_LayoutOrder ==
    /\ disk.full # "absent" => opened \in {<<>>, <<"full">>}
    /\ disk.full = "absent" => opened \in {<<>>, <<"simple">>}
    /\ (lpc = "returned" /\ loadResult = Some(TRUE) /\ opened = <<"full">>) =>
          LET b == FullBundle(disk.full)
          IN /\ model = Some(b.model)
             /\ scaler = Some(b.scaler)
             /\ feature_columns = Some(b.feature_columns)
             /\ label_encoders = Some(b.label_encoders)
    /\ (lpc = "returned" /\ loadResult = Some(TRUE) /\ opened = <<"simple">>) =>
          /\ model = Some(SimpleModel(disk.simple))
          /\ Absent

\* C5 witness: the full layout was absent and the simple layout was loaded.
C5_Witness ==
    /\ phase = "serving"
    /\ loadResult = Some(TRUE)
    /\ opened = <<"simple">>
    /\ ~IsNone(model)

\* C6: load_model is invoked exactly once, and it has returned before any
\* request handler runs.
C6_LoadOnceBeforeTraffic ==
    /\ loadCalls <= 1
    /\ phase = "serving" => loadCalls = 1
    /\ ((\E r \in Requests : req[r].pc # "idle") \/ ~IsNone(info)) =>
          (loadCalls = 1 /\ lpc = "returned" /\ phase = "serving")

\* C6 witness: a predict request and a GET request were taken after the one
\* load.
C6_Witness ==
    /\ loadCalls = 1
    /\ lpc = "returned"
    /\ \E r \in Requests : req[r].pc = "predict"
    /\ ~IsNone(info)

\* C7: once startup has finished, no step of any request handler changes
\* model, scaler, feature_columns or label_encoders.
C7_SnapshotFrozen == [][phase = "serving" => globals' = globals]_vars

\* A request was rejected by the feature builder.
FeaturePreparationFailed(r) ==
    /\ req[r].pc = "done"
    /\ ~IsNone(req[r].resp)
    /\ Get(req[r].resp).status = 500
    /\ Len(Get(req[r].resp).detail) > 1
    /\ Get(req[r].resp).detail[2] = "Feature preparation error"

\* C7 witness: one request failed in the feature builder and another one was
\* answered with a prediction.
C7_Witness ==
    /\ phase = "serving"
    /\ \E r \in Requests : FeaturePreparationFailed(r)
    /\ \E r \in Requests : req[r].pc = "done" /\ Get(req[r].resp).status = 200

\* The answer predict_churn gives to a customer when the request runs alone
\* against the current snapshot.
Outcome(customer) ==
    IF IsNone(model)
    THEN ErrorResponse(HTTPException(<<"Model not loaded">>))
    ELSE LET res == prepare_features(customer)
         IN IF ~res.ok
            THEN ErrorResponse(FeaturePreparationError(res.exc))
            ELSE IF ModelFails(Get(model), Get(res.value))
                 THEN ErrorResponse(Exception("ValueError", "model width"))
                 ELSE Response(200, <<>>,
                          Some(PredictionResponse(Predict(Get(model), Get(res.value)),
                                                  PredictProba(Get(model), Get(res.value)))))

\* C8: the vector and the answer of a predict request are those the same
\* record gets when it runs alone, whatever other requests are in flight, and
\* two requests with the same record get the same vector and answer.
C8_RequestsIndependent ==
    phase = "serving" =>
        /\ \A r \in Requests :
              /\ req[r].pc = "predict" =>
                    req[r].features = prepare_features(Get(req[r].customer)).value
              /\ r \in Answered => req[r].resp = Some(Outcome(Get(req[r].customer)))
        /\ \A r1, r2 \in Requests :
              (req[r1].customer = req[r2].customer /\ req[r1].pc = req[r2].pc) =>
                  req[r1] = req[r2]

\* C8 witness: two requests with different records are in flight together,
\* one answered with a prediction and one rejected.
C8_Witness ==
    /\ phase = "serving"
    /\ \E r1, r2 \in Requests :
          /\ r1 # r2
          /\ r1 \in Answered /\ Get(req[r1].resp).status = 200
          /\ r2 \in Answered /\ Get(req[r2].resp).status = 500

\* C9 as stated: under Absent the assembled vector has exactly 11 entries.
C9_AbsentLength11 ==
    \A r \in Requests :
        (Absent /\ ~IsNone(req[r].assembled)) => Len(Get(req[r].assembled)) = 11

\* C9 amended: under Absent the assembled vector has exactly 12 entries, one
\* per name of the built-in order.
C9_AbsentLength12 ==
    \A r \in Requests :
        (Absent /\ ~IsNone(req[r].assembled)) => Len(Get(req[r].assembled)) = 12

\* C9 witness: a vector was assembled under Absent.
C9_Witness ==
    /\ phase = "serving"
    /\ Absent
    /\ \E r \in Requests : ~IsNone(req[r].assembled)

\* The feature dictionary of a customer whose categorical values encode.
FeaturesOf(customer) == Features(customer, Encode(customer).codes)

\* C10: under Full, the assembled vector has one entry per name of
\* feature_columns, and entry i is the feature named feature_columns[i].
C10_FullVectorFollowsColumns ==
    \A r \in Requests :
        (Full /\ ~IsNone(req[r].assembled)) =>
            LET row == Get(req[r].assembled)
                cols == Get(feature_columns)
            IN /\ Len(row) = Len(cols)
               /\ \A i \in 1..Len(cols) :
                     row[i] = FeaturesOf(Get(req[r].customer))[cols[i]]

\* The vector the fallback path (fallback tables, built-in order, no
\* scaling) assembles for a customer.
FallbackVector(customer) ==
    [i \in 1..Len(FallbackOrder) |->
        Features(customer, FallbackCodes(customer))[FallbackOrder[i]]]

\* C11: with feature_columns equal to the built-in order and the label
\* encoders fitted as training fits them, the vector assembled under Full
\* (before scaling) equals, entry for entry, the vector the fallback path
\* assembles for the same record.
C11_PathsAgree ==
    \A r \in Requests :
        (/\ Full
         /\ feature_columns = Some(FallbackOrder)
         /\ label_encoders = Some(TrainedLabelEncoders)
         /\ ~IsNone(req[r].assembled)) =>
            Get(req[r].assembled) = FallbackVector(Get(req[r].customer))

\* Some categorical value of the customer is not among the classes of its
\* fitted encoder.
OutsideEncoders(customer) ==
    \E i \in 1..3 :
        /\ EncoderKeys[i] \in DOMAIN Get(label_encoders)
        /\ LET classes == Get(label_encoders)[EncoderKeys[i]]
           IN \A k \in 1..Len(classes) : classes[k] # CategoricalValues(customer)[i]

\* C12: under Full, a request whose contract_type, payment_method or
\* internet_service is outside its fitted encoder's classes is rejected with
\* a feature-preparation error: no vector is assembled, the model is not
\* called and no prediction is returned.
C12_UnknownCategoricalRejected ==
    \A r \in Requests :
        (/\ Full
         /\ req[r].pc \in {"predict", "done"}
         /\ Valid(Get(req[r].customer))
         /\ OutsideEncoders(Get(req[r].customer))) =>
            /\ FeaturePreparationFailed(r)
            /\ IsNone(Get(req[r].resp).body)
            /\ IsNone(req[r].assembled)
            /\ req[r].calls = {"prepare_features"}

\* C12 witness: under Full, a request with an unknown contract type was
\* rejected by the feature builder.
C12_Witness ==
    /\ phase = "serving"
    /\ Full
    /\ \E r \in Requests :
          /\ req[r].pc = "done"
          /\ Get(req[r].customer).contract_type = "Weekly"
          /\ FeaturePreparationFailed(r)

\* The codes the fixed tables assign, unknown values being 0.
TableContract(v) ==
    CASE v = "Month-to-month" -> 0 [] v = "One year" -> 1 [] v = "Two year" -> 2
      [] OTHER -> 0

TablePayment(v) ==
    CASE v = "Electronic check" -> 0 [] v = "Mailed check" -> 1
      [] v = "Bank transfer" -> 2 [] v = "Credit card" -> 3 [] OTHER -> 0

TableInternet(v) ==
    CASE v = "No" -> 0 [] v = "DSL" -> 1 [] v = "Fiber optic" -> 2 [] OTHER -> 0

\* C13: under Absent, the last three entries of the vector are the codes of
\* the fixed tables, a value outside a table is coded 0, and the request is
\* answered with a prediction.
C13_FallbackTables ==
    \A r \in Requests :
        (/\ phase = "serving"
         /\ Absent
         /\ ~IsNone(model)
         /\ req[r].pc \in {"predict", "done"}
         /\ Valid(Get(req[r].customer))) =>
            LET c == Get(req[r].customer)
            IN /\ ~IsNone(req[r].assembled)
               /\ Len(Get(req[r].assembled)) = 12
               /\ Get(req[r].assembled)[10] = R(TableContract(c.contract_type))
               /\ Get(req[r].assembled)[11] = R(TablePayment(c.payment_method))
               /\ Get(req[r].assembled)[12] = R(TableInternet(c.internet_service))
               /\ req[r].pc = "done" =>
                     (Get(req[r].resp).status = 200 /\ ~IsNone(Get(req[r].resp).body))

\* C13 witness: under Absent, a request whose contract type and internet
\* service are in no table was answered with a prediction.
C13_Witness ==
    /\ phase = "serving"
    /\ Absent
    /\ \E r \in Requests :
          /\ req[r].pc = "done"
          /\ Get(req[r].customer).contract_type = "Weekly"
          /\ Get(req[r].customer).internet_service = "Satellite"
          /\ Get(req[r].resp).status = 200

\* The rational x is exactly a / b.
IsQuotient(x, a, b) == x[1] * b = a * x[2]

\* C14: in every assembled vector each ratio entry is exactly 0 when
\* monthly_charges is not positive and exactly tenure / monthly_charges
\* (total_charges / monthly_charges) when it is positive, and no request
\* fails with a division error.
C14_Ratios ==
    \A r \in Requests :
        /\ (req[r].pc = "done" /\ FeaturePreparationFailed(r)) =>
              Get(req[r].resp).detail[Len(Get(req[r].resp).detail)] # "division by zero"
        /\ ~IsNone(req[r].assembled) =>
              LET c == Get(req[r].customer)
                  row == Get(req[r].assembled)
                  cols == SelectedColumns
              IN \A i \in 1..Len(row) :
                    /\ cols[i] = "tenure_monthly_ratio" =>
                          IF c.monthly_charges > 0
                          THEN IsQuotient(row[i], c.tenure, c.monthly_charges)
                          ELSE row[i] = R(0)
                    /\ cols[i] = "total_monthly_ratio" =>
                          IF c.monthly_charges > 0
                          THEN IsQuotient(row[i], c.total_charges, c.monthly_charges)
                          ELSE row[i] = R(0)

\* C14 witness: a vector was assembled for a record whose monthly_charges is
\* 0, and another for a record whose monthly_charges is positive.
C14_Witness ==
    /\ phase = "serving"
    /\ \E r \in Requests :
          ~IsNone(req[r].assembled) /\ Get(req[r].customer).monthly_charges = 0
    /\ \E r \in Requests :
          ~IsNone(req[r].assembled) /\ Get(req[r].customer).monthly_charges > 0

\* Requests answered with a PredictionResponse.
Predicted == {r \in Requests : req[r].pc = "done" /\ Get(req[r].resp).status = 200}

\* What the model returns for the row that request r handed to it.
ModelSaid(r) == ModelOutput(Get(model), Get(req[r].features))

\* C15: in every PredictionResponse, churn_prediction is true exactly when
\* the model's label is nonzero, and churn_probability is the second entry
\* (index 1) of the model's probability pair for the same row.
C15_LabelAndProbability ==
    \A r \in Predicted :
        LET body == Get(Get(req[r].resp).body)
        IN /\ body.churn_prediction <=> ModelSaid(r).label # 0
           /\ body.churn_probability = ModelSaid(r).proba[2]

\* C15 witness: one request was answered churn = true with the second
\* probability, another churn = false, and the two probabilities of each
\* pair differ.
C15_Witness ==
    /\ \E r \in Predicted :
          /\ Get(Get(req[r].resp).body).churn_prediction
          /\ ModelSaid(r).proba[1] # ModelSaid(r).proba[2]
    /\ \E r \in Predicted : ~Get(Get(req[r].resp).body).churn_prediction

\* Whether the rational x lies in [0, 1].
InUnitInterval(x) == ~QLess(x, R(0)) /\ ~QLess(R(1), x)

\* C16: in every PredictionResponse, churn_probability and confidence lie
\* in [0, 1] and confidence is the larger of the model's two probabilities.
C16_ConfidenceIsMax ==
    \A r \in Predicted :
        LET body == Get(Get(req[r].resp).body)
            p == ModelSaid(r).proba
        IN /\ InUnitInterval(body.churn_probability)
           /\ InUnitInterval(body.confidence)
           /\ body.confidence \in {p[1], p[2]}
           /\ ~QLess(body.confidence, p[1])
           /\ ~QLess(body.confidence, p[2])

\* C16 witness: a response whose confidence is the probability of the first
\* class, so that confidence and churn_probability differ.
C16_Witness ==
    \E r \in Predicted :
        /\ Get(Get(req[r].resp).body).confidence = ModelSaid(r).proba[1]
        /\ Get(Get(req[r].resp).body).confidence # Get(Get(req[r].resp).body).churn_probability

\* The record the repository's connection tests post to /predict.
EndToEndRecord ==
    Customer(12, 50, 600, "Month-to-month", "Electronic check", "DSL", 2)

\* The artifacts are those save_model writes: the full bundle, or only the
\* simple model.
PipelineArtifact ==
    disk.full = "trained" \/ (disk.full = "absent" /\ disk.simple = "model")

HasNegativeAmount(c) == c.tenure < 0 \/ c.monthly_charges < 0 \/ c.total_charges < 0

\* C18: a record with a negative tenure, monthly_charges or total_charges is
\* rejected by validation; predict_churn does not run for it, so neither
\* prepare_features nor the model is called.
C18_NegativeRejected ==
    \A r \in Requests :
        (~IsNone(req[r].customer) /\ HasNegativeAmount(Get(req[r].customer))) =>
            /\ req[r].pc = "done"
            /\ Get(req[r].resp).status = 422
            /\ req[r].calls = {}
            /\ IsNone(req[r].assembled)
            /\ IsNone(req[r].features)

\* C18 witness: a record with negative monthly_charges and one with negative
\* total_charges were both rejected while a model was loaded.
C18_Witness ==
    /\ ~IsNone(model)
    /\ \E r \in Requests :
          /\ req[r].pc = "done"
          /\ Get(req[r].customer).monthly_charges < 0
          /\ Get(req[r].resp).status = 422
    /\ \E r \in Requests :
          /\ req[r].pc = "done"
          /\ Get(req[r].customer).total_charges < 0
          /\ Get(req[r].resp).status = 422

\* C19: every record for which prepare_features runs has
\* customer_service_calls >= 0.
C19_CallsNonNegative ==
    \A r \in Requests :
        "prepare_features" \in req[r].calls =>
            Get(req[r].customer).customer_service_calls >= 0

\* Request r left predict_churn after prepare_features was called and
\* before the model was: the feature builder failed for it.
BuilderFailed(r) ==
    /\ req[r].pc = "done"
    /\ "prepare_features" \in req[r].calls
    /\ "predict" \notin req[r].calls

\* C20: a request for which the feature builder fails is answered with a
\* feature-preparation error and no prediction, the service keeps serving,
\* and every other request is answered as it is when it runs alone.
C20_BuilderFailureIsLocal ==
    \A r \in Requests :
        BuilderFailed(r) =>
            /\ FeaturePreparationFailed(r)
            /\ IsNone(Get(req[r].resp).body)
            /\ phase = "serving"
            /\ \A s \in Requests \ {r} :
                  /\ req[s].pc = "idle" => ENABLED PredictReceive(s)
                  /\ s \in Answered => req[s].resp = Some(Outcome(Get(req[s].customer)))

\* C20 witness: one request was rejected by the feature builder and a later
\* one was answered with a prediction.
C20_Witness ==
    \E r, s \in Requests :
        /\ BuilderFailed(r)
        /\ s \in Predicted

\* The cause named at the end of a rejected request's detail: an unseen
\* label, a column name that is no built feature, or the scaler's width.
BuilderFailureCause(r) == Get(req[r].resp).detail[Len(Get(req[r].resp).detail)]

\* The model was called for request r with a row it cannot score.
InferenceFailed(r) ==
    /\ req[r].pc = "done"
    /\ "predict" \in req[r].calls
    /\ Len(Get(req[r].features)) # Get(model).n_features

\* C21: a request whose model invocation fails is answered with an error
\* and no prediction, the service keeps serving, and every other request is
\* answered as it is when it runs alone.
C21_InferenceFailureIsLocal ==
    \A r \in Requests :
        InferenceFailed(r) =>
            /\ Get(req[r].resp).status = 500
            /\ IsNone(Get(req[r].resp).body)
            /\ ~FeaturePreparationFailed(r)
            /\ phase = "serving"
            /\ \A s \in Requests \ {r} :
                  /\ req[s].pc = "idle" => ENABLED PredictReceive(s)
                  /\ s \in Answered => req[s].resp = Some(Outcome(Get(req[s].customer)))

\* C21 witness: the model rejected the row of one request, and another
\* request has been taken and answered as well.
C21_Witness ==
    \E r, s \in Requests :
        /\ r # s
        /\ InferenceFailed(r)
        /\ Get(req[r].resp).status = 500
        /\ s \in Answered

\* The row request r handed to the model is its assembled row put through
\* the loaded scaler once.
ScaledOnce(r) ==
    /\ ~IsNone(scaler)
    /\ ~ScalerFails(Get(scaler), Get(req[r].assembled))
    /\ Get(req[r].features) = ScalerTransform(Get(scaler), Get(req[r].assembled))

\* C22: the row handed to the model is the assembled row scaled once exactly
\* when the preprocessing state is Full, and under Absent it is the assembled
\* row itself.
C22_ScaledIffFull ==
    \A r \in Requests :
        ~IsNone(req[r].features) =>
            /\ ScaledOnce(r) <=> Full
            /\ Absent => req[r].features = req[r].assembled

\* C22 restricted to the two states the specification names.
C22_ScaledIffFullWhenFullOrAbsent ==
    \A r \in Requests :
        (~IsNone(req[r].features) /\ (Full \/ Absent)) =>
            /\ ScaledOnce(r) <=> Full
            /\ Absent => req[r].features = req[r].assembled

\* The value a pass-through or binary column must carry for customer c;
\* None for the other columns.
Expected(col, c) ==
    CASE col = "tenure"                 -> Some(R(c.tenure))
      [] col = "monthly_charges"        -> Some(R(c.monthly_charges))
      [] col = "total_charges"          -> Some(R(c.total_charges))
      [] col = "customer_service_calls" -> Some(R(c.customer_service_calls))
      [] col = "is_month_to_month"      ->
            Some(IF c.contract_type = "Month-to-month" THEN R(1) ELSE R(0))
      [] col = "is_electronic_check"    ->
            Some(IF c.payment_method = "Electronic check" THEN R(1) ELSE R(0))
      [] col = "has_internet"           ->
            Some(IF c.internet_service = "No" THEN R(0) ELSE R(1))
      [] OTHER -> None

\* C23: in every assembled vector, whatever the preprocessing state, the
\* columns tenure, monthly_charges, total_charges and customer_service_calls
\* carry the record's values unchanged, and is_month_to_month,
\* is_electronic_check and has_internet are 1 exactly for "Month-to-month",
\* "Electronic check" and any internet service other than "No".
C23_PassThroughAndBinaries ==
    \A r \in Requests :
        ~IsNone(req[r].assembled) =>
            LET c == Get(req[r].customer)
                row == Get(req[r].assembled)
                cols == SelectedColumns
            IN \A i \in 1..Len(row) :
                  ~IsNone(Expected(cols[i], c)) => row[i] = Get(Expected(cols[i], c))

\* C23 witness: vectors were assembled for a record whose internet service
\* is in no table (has_internet 1) and for a record without internet
\* service (has_internet 0).
C23_Witness ==
    /\ \E r \in Requests :
          /\ ~IsNone(req[r].assembled)
          /\ Get(req[r].customer).internet_service = "Satellite"
          /\ Get(req[r].assembled)[7] = R(1)
    /\ \E r \in Requests :
          /\ ~IsNone(req[r].assembled)
          /\ Get(req[r].customer).internet_service = "No"
          /\ Get(req[r].assembled)[7] = R(0)

\* The last GET answer came from the given endpoint.
Seen(endpoint) == ~IsNone(info) /\ Get(info).endpoint = endpoint

\* C24: once the service is up, health and root always answer 200, and
\* model-info answers 200 exactly when health reports model_loaded = true
\* and is otherwise rejected with "Model not loaded"; with a model loaded
\* all three answer 200.
C24_InfoEndpointsAgree ==
    phase = "serving" =>
        /\ ENABLED HealthCheck /\ ENABLED ModelInfo /\ ENABLED Root
        /\ HealthBody.status = 200
        /\ RootBody.status = 200
        /\ Seen("health") =>
              /\ Get(info).status = 200
              /\ Get(info).model_loaded <=> ModelInfoBody.status = 200
        /\ Seen("root") => Get(info).status = 200
        /\ Seen("model-info") =>
              /\ Get(info).status = 200 <=> HealthBody.model_loaded
              /\ Get(info).status # 200 =>
                    (Get(info).status = 500 /\ Get(info).detail = <<"Model not loaded">>)
        /\ ~IsNone(model) => ModelInfoBody.status = 200

\* C24 witness: model-info was rejected with "Model not loaded" in a state
\* where health reports model_loaded = false.
C24_Witness ==
    /\ phase = "serving"
    /\ Seen("model-info")
    /\ Get(info).status = 500
    /\ ~HealthBody.model_loaded

\* The full-layout file exists but does not load: it cannot be opened or
\* unpickled, or the bundle lacks one of the four slots.
FullLayoutBroken ==
    /\ disk.full # "absent"
    /\ \/ disk.full \in {"unreadable", "corrupt"}
       \/ \E k \in {"model", "scaler", "feature_columns", "label_encoders"} :
             k \notin DOMAIN FullBundle(disk.full)

\* C25: when the full-layout file exists but does not load, load_model
\* returns False and the simple-layout file is never opened, whatever is at
\* the simple location.
C25_NoFallbackAfterBrokenFull ==
    FullLayoutBroken =>
        /\ \A i \in 1..Len(opened) : opened[i] # "simple"
        /\ lpc # "open_simple"
        /\ lpc = "returned" => (loadResult = Some(FALSE) /\ opened = <<"full">>)

\* C25 witness: a corrupt full layout with a valid simple-layout model next
\* to it; load_model returned False and the service is up without a model.
C25_Witness ==
    /\ disk = [full |-> "corrupt", simple |-> "model"]
    /\ phase = "serving"
    /\ loadResult = Some(FALSE)
    /\ opened = <<"full">>
    /\ IsNone(model)

\* scripts/train_model.py prepare_features(): the StandardScaler fitted on
\* the training rows; the models are fitted on its output.
TrainingScaler == Scaler(Len(TrainedFeatureColumns))

\* The model was called for request r.
ModelInvoked(r) == "predict" \in req[r].calls

\* C26: whenever the model of a pipeline artifact is invoked, under either
\* layout, the row it receives is the assembled row transformed by the
\* scaler fitted at training.
C26_ModelInputScaled ==
    \A r \in Requests :
        (PipelineArtifact /\ ModelInvoked(r)) =>
            Get(req[r].features) = ScalerTransform(TrainingScaler, Get(req[r].assembled))

\* C26 for the full layout alone.
C26_ModelInputScaledFullLayout ==
    \A r \in Requests :
        (disk.full = "trained" /\ ModelInvoked(r)) =>
            Get(req[r].features) = ScalerTransform(TrainingScaler, Get(req[r].assembled))

\* C27: in every PredictionResponse, churn_prediction is true exactly when
\* churn_probability is at least 1/2.
C27_LabelAgreesWithProbability ==
    \A r \in Predicted :
        LET body == Get(Get(req[r].resp).body)
        IN body.churn_prediction <=> ~QLess(body.churn_probability, Q(1, 2))

\* C28: under Absent, in every assembled vector has_internet is 0 exactly
\* when internet_encoded is 0.
C28_FlagAgreesWithCode ==
    \A r \in Requests :
        (Absent /\ ~IsNone(req[r].assembled)) =>
            LET row == Get(req[r].assembled)
            IN row[IndexOf(FallbackOrder, "has_internet")] = R(0)
                  <=> row[IndexOf(FallbackOrder, "internet_encoded")] = R(0)

\* C28 for the services the fallback table lists.
C28_FlagAgreesWithCodeForListed ==
    \A r \in Requests :
        (/\ Absent
         /\ ~IsNone(req[r].assembled)
         /\ Get(req[r].customer).internet_service \in {"No", "DSL", "Fiber optic"}) =>
            LET row == Get(req[r].assembled)
            IN row[IndexOf(FallbackOrder, "has_internet")] = R(0)
                  <=> row[IndexOf(FallbackOrder, "internet_encoded")] = R(0)

\* The names of the features prepare_features constructs.
BuiltFeatures ==
    {"tenure", "monthly_charges", "total_charges", "customer_service_calls",
     "is_month_to_month", "is_electronic_check", "has_internet",
     "tenure_monthly_ratio", "total_monthly_ratio",
     "contract_encoded", "payment_encoded", "internet_encoded"}

\* C29: the column list the training pipeline stores is, position for
\* position, the built-in fallback order, and each of its names is a built
\* feature; so with the pipeline's bundle loaded the columns selected are
\* those of the fallback order, no request fails on a missing feature name,
\* and entry i of every assembled vector is the feature the fallback order
\* names at i.
C29_TrainedColumnsAreFallbackOrder ==
    /\ Len(TrainedFeatureColumns) = Len(FallbackOrder)
    /\ \A i \in 1..Len(FallbackOrder) :
          /\ TrainedFeatureColumns[i] = FallbackOrder[i]
          /\ TrainedFeatureColumns[i] \in BuiltFeatures
    /\ (disk.full = "trained" /\ phase = "serving") =>
          /\ SelectedColumns = FallbackOrder
          /\ \A r \in Requests :
                /\ BuilderFailed(r) => BuilderFailureCause(r) = "unseen label"
                /\ ~IsNone(req[r].assembled) =>
                      /\ Len(Get(req[r].assembled)) = Len(FallbackOrder)
                      /\ \A i \in 1..Len(FallbackOrder) :
                            Get(req[r].assembled)[i] =
                                FeaturesOf(Get(req[r].customer))[FallbackOrder[i]]

\* C29 witness: with the pipeline's bundle loaded, a vector was assembled
\* under Full from the stored column list.
C29_Witness ==
    /\ disk.full = "trained"
    /\ Full
    /\ feature_columns = Some(TrainedFeatureColumns)
    /\ \E r \in Requests : ~IsNone(req[r].assembled) /\ req[r].pc = "done"

=============================================================================
